---- MODULE Spec2Model ----
(***************************************************************************)
(* A model of app.py: the TMJ number extractor (extract_section_numbers,   *)
(* process_pdf) and the Flask handlers around it (upload_pdf,              *)
(* get_progress, cancel_task, cleanup_old_tasks).                          *)
(*                                                                         *)
(* A Python str is a sequence of one-character strings, so that split,     *)
(* strip and the regular expressions are computed character by character.  *)
(***************************************************************************)
EXTENDS Integers, Sequences, FiniteSets, TLC

(***************************************************************************)
(* Bounds of the model.                                                    *)
(***************************************************************************)
\* Most lines of a page text handed to extract_section_numbers on its own.
MaxLines == 3
\* Most pages of an uploaded document.
MaxPages == 1
\* Last value of the clock, in hours.
MaxNow == 2

(***************************************************************************)
(* Characters and character classes.                                       *)
(***************************************************************************)
\* U+2013, the second character of the class of hyphens of patterns['pr_section'].
EnDash == "en-dash"

Digits == {"0","1","2","3","4","5","6","7","8","9"}

\* \s of re, and the characters str.split() and str.strip() treat as blank.
Whitespace == {" ", "\t", "\n", "\r"}

LowerCase == <<"a","b","c","d","e","f","g","h","i","j","k","l","m","n","o","p","q","r","s","t","u","v","w","x","y","z">>

UpperCase == <<"A","B","C","D","E","F","G","H","I","J","K","L","M","N","O","P","Q","R","S","T","U","V","W","X","Y","Z">>

\* The case folding of re.IGNORECASE and the inverse of str.lower(), on ASCII.
Upper(c) ==
    IF \E k \in 1..26 : LowerCase[k] = c
    THEN UpperCase[CHOOSE k \in 1..26 : LowerCase[k] = c]
    ELSE c

\* str.lower() on one character.
Lower(c) ==
    IF \E k \in 1..26 : UpperCase[k] = c
    THEN LowerCase[CHOOSE k \in 1..26 : UpperCase[k] = c]
    ELSE c

\* \d of re and str.isdigit() on one character.
IsDigit(c) == c \in Digits

IsSpace(c) == c \in Whitespace

(***************************************************************************)
(* str methods.                                                            *)
(***************************************************************************)
\* s.strip(): s without its leading and trailing whitespace.
Strip(s) ==
    LET keep == {i \in 1..Len(s) : ~IsSpace(s[i])}
    IN  IF keep = {} THEN <<>>
        ELSE SubSeq(s, CHOOSE i \in keep : \A j \in keep : i <= j,
                       CHOOSE i \in keep : \A j \in keep : j <= i)

\* The index after the run of characters of class cls that starts at i.
RunStop(s, i, cls) ==
    CHOOSE j \in i..(Len(s) + 1) :
        /\ \A k \in i..(j - 1) : s[k] \in cls
        /\ (j = Len(s) + 1 \/ s[j] \notin cls)

\* The maximal runs of characters outside sep, from i on, in order.
RECURSIVE SplitFrom(_, _, _)
SplitFrom(s, i, sep) ==
    IF i > Len(s) THEN <<>>
    ELSE IF s[i] \in sep THEN SplitFrom(s, i + 1, sep)
    ELSE LET j == CHOOSE j \in i..(Len(s) + 1) :
                      /\ \A k \in i..(j - 1) : s[k] \notin sep
                      /\ (j = Len(s) + 1 \/ s[j] \in sep)
         IN  <<SubSeq(s, i, j - 1)>> \o SplitFrom(s, j, sep)

\* s.split(): the maximal runs of non-blank characters, in order.
Split(s) == SplitFrom(s, 1, Whitespace)

\* text.split('\n'): the pieces between newlines, empty pieces kept, so that
\* the result always holds at least one line.
RECURSIVE SplitLinesFrom(_, _)
SplitLinesFrom(text, i) ==
    LET nl == {j \in i..Len(text) : text[j] = "\n"}
    IN  IF nl = {} THEN <<SubSeq(text, i, Len(text))>>
        ELSE LET j == CHOOSE j \in nl : \A k \in nl : j <= k
             IN  <<SubSeq(text, i, j - 1)>> \o SplitLinesFrom(text, j + 1)

SplitLines(text) == SplitLinesFrom(text, 1)

\* c.isdigit() for a token of line.split(), which is never empty.
AllDigits(tok) == Len(tok) > 0 /\ \A k \in 1..Len(tok) : IsDigit(tok[k])

\* filename.lower().endswith(suffix)
LowerEndsWith(name, suffix) ==
    /\ Len(name) >= Len(suffix)
    /\ \A k \in 1..Len(suffix) :
           Lower(name[Len(name) - Len(suffix) + k]) = suffix[k]

(***************************************************************************)
(* self.section_order, self.section_markers and self.patterns.             *)
(***************************************************************************)
section_order == <<"advertisement", "corrigenda", "rc", "renewal", "pr_section">>

Sections == {section_order[k] : k \in 1..Len(section_order)}

MarkerCorrigenda == <<"C","O","R","R","I","G","E","N","D","A">>

MarkerRenewal == <<"F","O","L","L","O","W","I","N","G"," ","T","R","A","D","E"," ","M","A","R","K","S"," ","R","E","G","I","S","T","R","A","T","I","O","N"," ","R","E","N","E","W","E","D">>

MarkerPrSection == <<"P","R"," ","S","E","C","T","I","O","N">>

ApplicationNo == <<"A","p","p","l","i","c","a","t","i","o","n"," ","N","o">>

\* The n of \d{n,} in every pattern.
MinDigits == 5

\* The 5 of len(cols) == 5 in the rc branch.
RcColumns == 5

\* marker.search(line) for a marker compiled with re.IGNORECASE: the marker
\* occurs somewhere in the line, whatever the case of the letters.
MarkerSearch(marker, line) ==
    \E i \in 1..(Len(line) - Len(marker) + 1) :
        \A k \in 1..Len(marker) : Upper(line[i + k - 1]) = Upper(marker[k])

\* s continues at i with the literal lit (case-sensitive).
LiteralAt(s, i, lit) ==
    /\ i + Len(lit) - 1 <= Len(s)
    /\ \A k \in 1..Len(lit) : s[i + k - 1] = lit[k]

NoMatch == [ok |-> FALSE, from |-> 0, to |-> 0, end |-> 0]

\* (\d{5,}) tried at i: greedy, so the whole run of digits from i.
DigitGroupAt(s, i) ==
    LET j == RunStop(s, i, Digits)
    IN  IF i <= Len(s) /\ j - i >= MinDigits
        THEN [ok |-> TRUE, from |-> i, to |-> j - 1, end |-> j - 1]
        ELSE NoMatch

\* (?<!\d) at i.
NotAfterDigit(s, i) == i = 1 \/ ~IsDigit(s[i - 1])

\* \d{2}/\d{2}/\d{4} at i.
DateAt(s, i) ==
    /\ i + 9 <= Len(s)
    /\ \A k \in {0, 1, 3, 4, 6, 7, 8, 9} : IsDigit(s[i + k])
    /\ s[i + 2] = "/"
    /\ s[i + 5] = "/"

\* patterns['advertisement'] = (?<!\d)(\d{5,})(?:\s+\d{2}/\d{2}/\d{4})? at i:
\* the group is the run of digits, the match also takes a date that follows.
MatchAdvertisement(s, i) ==
    LET g == DigitGroupAt(s, i)
        d == RunStop(s, g.to + 1, Whitespace)
    IN  IF ~(NotAfterDigit(s, i) /\ g.ok) THEN NoMatch
        ELSE IF d > g.to + 1 /\ DateAt(s, d) THEN [g EXCEPT !.end = d + 9]
        ELSE g

\* patterns['corrigenda'] = patterns['renewal'][0] = (?<!\d)(\d{5,})(?!\d) at i.
MatchBoundedRun(s, i) ==
    LET g == DigitGroupAt(s, i)
    IN  IF NotAfterDigit(s, i) /\ g.ok THEN g ELSE NoMatch

\* patterns['renewal'][1] = Application No\s*:?\s*(\d{5,}) at i.
MatchApplicationNo(s, i) ==
    LET a == RunStop(s, i + Len(ApplicationNo), Whitespace)
        b == IF a <= Len(s) /\ s[a] = ":" THEN a + 1 ELSE a
        c == RunStop(s, b, Whitespace)
    IN  IF LiteralAt(s, i, ApplicationNo)
        THEN DigitGroupAt(s, c)
        ELSE NoMatch

\* patterns['pr_section'] = (\d{5,})\s*[hyphen or en dash] at i.
MatchPrSection(s, i) ==
    LET g == DigitGroupAt(s, i)
        h == RunStop(s, g.to + 1, Whitespace)
    IN  IF g.ok /\ h <= Len(s) /\ s[h] \in {"-", EnDash}
        THEN [g EXCEPT !.end = h]
        ELSE NoMatch

MatchAt(pattern, s, i) ==
    CASE pattern = "advertisement" -> MatchAdvertisement(s, i)
      [] pattern = "corrigenda" -> MatchBoundedRun(s, i)
      [] pattern = "renewal0" -> MatchBoundedRun(s, i)
      [] pattern = "renewal1" -> MatchApplicationNo(s, i)
      [] pattern = "pr_section" -> MatchPrSection(s, i)

\* pattern.findall(s) from i on: the group of every match, left to right, the
\* scan resuming after the end of each match.
RECURSIVE FindAllFrom(_, _, _)
FindAllFrom(pattern, s, i) ==
    IF i > Len(s) THEN <<>>
    ELSE LET m == MatchAt(pattern, s, i)
         IN  IF m.ok
             THEN <<SubSeq(s, m.from, m.to)>> \o FindAllFrom(pattern, s, m.end + 1)
             ELSE FindAllFrom(pattern, s, i + 1)

FindAll(pattern, s) == FindAllFrom(pattern, s, 1)

\* A deduplication that keeps the last occurrence of each token instead.
RECURSIVE KeepLastOccurrence(_)
KeepLastOccurrence(numbers) ==
    IF numbers = <<>> THEN <<>>
    ELSE LET rest == KeepLastOccurrence(Tail(numbers))
         IN  IF \E k \in 1..Len(rest) : rest[k] = Head(numbers)
             THEN rest
             ELSE <<Head(numbers)>> \o rest

\* list(dict.fromkeys(numbers)): the first occurrence of each token, in order.
RECURSIVE _remove_duplicates(_)
_remove_duplicates(numbers) ==
    IF numbers = <<>> THEN <<>>
    ELSE LET rest == _remove_duplicates(SubSeq(numbers, 1, Len(numbers) - 1))
             last == numbers[Len(numbers)]
         IN  IF \E k \in 1..Len(rest) : rest[k] = last
             THEN rest
             ELSE Append(rest, last)

(***************************************************************************)
(* extract_section_numbers, one line at a time.  Each operator is the body *)
(* of one section's loop: the new value of in_section, the matches that    *)
(* numbers is extended with, and whether the loop breaks.                  *)
(***************************************************************************)
ScanAdvertisement(line, in_section) ==
    [in_section |-> in_section, stop |-> FALSE,
     matches |-> FindAll("advertisement", Strip(line))]

ScanCorrigenda(line, in_section) ==
    IF MarkerSearch(MarkerCorrigenda, line)
    THEN [in_section |-> TRUE, stop |-> FALSE, matches |-> <<>>]
    ELSE IF MarkerSearch(MarkerRenewal, line)
    THEN [in_section |-> in_section, stop |-> TRUE, matches |-> <<>>]
    ELSE [in_section |-> in_section, stop |-> FALSE,
          matches |-> IF in_section THEN FindAll("corrigenda", Strip(line))
                      ELSE <<>>]

\* An rc branch that takes every line of at least 5 numeric columns.
ScanRcAtLeast(line, in_section) ==
    LET cols == Split(line)
    IN  [in_section |-> in_section, stop |-> FALSE,
         matches |-> IF Len(cols) >= RcColumns
                        /\ \A k \in 1..Len(cols) : AllDigits(cols[k])
                     THEN cols
                     ELSE <<>>]

ScanRc(line, in_section) ==
    LET cols == Split(line)
    IN  [in_section |-> in_section, stop |-> FALSE,
         matches |-> IF Len(cols) = RcColumns
                        /\ \A k \in 1..Len(cols) : AllDigits(cols[k])
                     THEN cols
                     ELSE <<>>]

\* A renewal branch that leaves out the second pattern.
ScanRenewalFirstPattern(line, in_section) ==
    IF MarkerSearch(MarkerRenewal, line)
    THEN [in_section |-> TRUE, stop |-> FALSE, matches |-> <<>>]
    ELSE [in_section |-> in_section, stop |-> FALSE,
          matches |-> IF in_section THEN FindAll("renewal0", Strip(line))
                      ELSE <<>>]

ScanRenewal(line, in_section) ==
    IF MarkerSearch(MarkerRenewal, line)
    THEN [in_section |-> TRUE, stop |-> FALSE, matches |-> <<>>]
    ELSE [in_section |-> in_section, stop |-> FALSE,
          matches |-> IF in_section
                      THEN FindAll("renewal0", Strip(line))
                           \o FindAll("renewal1", Strip(line))
                      ELSE <<>>]

ScanPrSection(line, in_section) ==
    IF MarkerSearch(MarkerPrSection, line)
    THEN [in_section |-> TRUE, stop |-> FALSE, matches |-> <<>>]
    ELSE [in_section |-> in_section, stop |-> FALSE,
          matches |-> IF in_section THEN FindAll("pr_section", Strip(line))
                      ELSE <<>>]

ScanLine(section, line, in_section) ==
    CASE section = "advertisement" -> ScanAdvertisement(line, in_section)
      [] section = "corrigenda" -> ScanCorrigenda(line, in_section)
      [] section = "rc" -> ScanRc(line, in_section)
      [] section = "renewal" -> ScanRenewal(line, in_section)
      [] section = "pr_section" -> ScanPrSection(line, in_section)

(***************************************************************************)
(* The page texts the extractor is run on: every text of at most MaxLines  *)
(* lines, the lines drawn from a pool that holds the section's cases.      *)
(***************************************************************************)
\* '12345 01/02/20245'
AdvLine1 == <<"1","2","3","4","5"," ","0","1","/","0","2","/","2","0","2","4","5">>

\* ' 99999 12345 '
AdvLine2 == <<" ","9","9","9","9","9"," ","1","2","3","4","5"," ">>

\* '1234 x123456'
AdvLine3 == <<"1","2","3","4"," ","x","1","2","3","4","5","6">>

\* '12345'
AdvLine4 == <<"1","2","3","4","5">>

AdvPool == {AdvLine1, AdvLine2, AdvLine3, AdvLine4}

\* 'CORRIGENDA'
CorrLine1 == <<"C","O","R","R","I","G","E","N","D","A">>

\* '12345 is corrected'
CorrLine2 == <<"1","2","3","4","5"," ","i","s"," ","c","o","r","r","e","c","t","e","d">>

\* 'FOLLOWING TRADE MARKS REGISTRATION RENEWED'
CorrLine3 == <<"F","O","L","L","O","W","I","N","G"," ","T","R","A","D","E"," ","M","A","R","K","S"," ","R","E","G","I","S","T","R","A","T","I","O","N"," ","R","E","N","E","W","E","D">>

\* '99999'
CorrLine4 == <<"9","9","9","9","9">>

\* 'corrigenda 67890 following trade marks registration renewed'
CorrLine5 == <<"c","o","r","r","i","g","e","n","d","a"," ","6","7","8","9","0"," ","f","o","l","l","o","w","i","n","g"," ","t","r","a","d","e"," ","m","a","r","k","s"," ","r","e","g","i","s","t","r","a","t","i","o","n"," ","r","e","n","e","w","e","d">>

CorrPool == {CorrLine1, CorrLine2, CorrLine3, CorrLine4, CorrLine5}

\* '111 222 333 444 555'
RcLine1 == <<"1","1","1"," ","2","2","2"," ","3","3","3"," ","4","4","4"," ","5","5","5">>

\* '111 222 333'
RcLine2 == <<"1","1","1"," ","2","2","2"," ","3","3","3">>

\* '1 2 3 4'
RcLine3 == <<"1"," ","2"," ","3"," ","4">>

\* '1 2 3 4 5 6'
RcLine4 == <<"1"," ","2"," ","3"," ","4"," ","5"," ","6">>

\* '111 22 x3 4 5'
RcLine5 == <<"1","1","1"," ","2","2"," ","x","3"," ","4"," ","5">>

\* '\t7  8 9 555 11 '
RcLine6 == <<"\t","7"," "," ","8"," ","9"," ","5","5","5"," ","1","1"," ">>

RcPool == {RcLine1, RcLine2, RcLine3, RcLine4, RcLine5, RcLine6}

\* 'following trade marks registration renewed 11111'
RenLine1 == <<"f","o","l","l","o","w","i","n","g"," ","t","r","a","d","e"," ","m","a","r","k","s"," ","r","e","g","i","s","t","r","a","t","i","o","n"," ","r","e","n","e","w","e","d"," ","1","1","1","1","1">>

\* '99999'
RenLine2 == <<"9","9","9","9","9">>

\* 'Application No: 54321 99999'
RenLine3 == <<"A","p","p","l","i","c","a","t","i","o","n"," ","N","o",":"," ","5","4","3","2","1"," ","9","9","9","9","9">>

\* 'Application No 1234 x123456'
RenLine4 == <<"A","p","p","l","i","c","a","t","i","o","n"," ","N","o"," ","1","2","3","4"," ","x","1","2","3","4","5","6">>

\* 'CORRIGENDA 12345'
RenLine5 == <<"C","O","R","R","I","G","E","N","D","A"," ","1","2","3","4","5">>

RenPool == {RenLine1, RenLine2, RenLine3, RenLine4, RenLine5}

\* 'PR SECTION 11111 -'
PrLine1 == <<"P","R"," ","S","E","C","T","I","O","N"," ","1","1","1","1","1"," ","-">>

\* '12345 - 99999'
PrLine2 == <<"1","2","3","4","5"," ","-"," ","9","9","9","9","9">>

\* '99999 {en-dash}67890-'
PrLine3 == <<"9","9","9","9","9"," ","en-dash","6","7","8","9","0","-">>

\* '123456'
PrLine4 == <<"1","2","3","4","5","6">>

\* 'pr section'
PrLine5 == <<"p","r"," ","s","e","c","t","i","o","n">>

PrPool == {PrLine1, PrLine2, PrLine3, PrLine4, PrLine5}

LinePool(section) ==
    CASE section = "advertisement" -> AdvPool
      [] section = "corrigenda" -> CorrPool
      [] section = "rc" -> RcPool
      [] section = "renewal" -> RenPool
      [] section = "pr_section" -> PrPool

\* "\n".join(lines)
RECURSIVE JoinLines(_)
JoinLines(lines) ==
    IF lines = <<>> THEN <<>>
    ELSE IF Len(lines) = 1 THEN lines[1]
    ELSE lines[1] \o <<"\n">> \o JoinLines(Tail(lines))

PageTexts(section) ==
    {JoinLines(ls) : ls \in UNION {[1..n -> LinePool(section)] : n \in 0..MaxLines}}

(***************************************************************************)
(* The requests and the documents they upload.                             *)
(***************************************************************************)
\* The upload requests.  uuid.uuid4() gives every accepted upload a task id
\* no other task has: the task of an upload is named after the upload.
Uploads == {"A", "B"}

\* A task id no upload is ever given.
UnknownId == "X"

TaskIds == Uploads \cup {UnknownId}

\* 50 * 1024 * 1024
MaxUploadBytes == 50 * 1024 * 1024

\* timedelta(hours=1), the clock counting hours.
RetentionHours == 1

DotPdf == <<".","p","d","f">>

FileNames == {<<"a",".","p","d","f">>, <<"A",".","P","D","F">>,
              <<"a",".","t","x","t">>, <<"p","d","f">>}

FileSizes == {1, MaxUploadBytes, MaxUploadBytes + 1}

NoRequest == [has_file |-> FALSE, filename |-> <<>>, size |-> 0]

UploadRequests ==
    {NoRequest} \cup [has_file : {TRUE}, filename : FileNames, size : FileSizes]

\* The page text "CORRIGENDA\n12345 is corrected".
ExampleText == JoinLines(<<CorrLine1, CorrLine2>>)

\* page.extract_text() raises, returns nothing, or returns a text.
Pages == {[raises |-> TRUE, text |-> <<>>], [raises |-> FALSE, text |-> <<>>],
          [raises |-> FALSE, text |-> ExampleText]}

\* pdfplumber.open() raises, or gives the pages.
NoDocument == [opens |-> FALSE, pages |-> <<>>]

Documents ==
    {NoDocument}
    \cup {[opens |-> TRUE, pages |-> ps] :
             ps \in UNION {[1..n -> Pages] : n \in 0..MaxPages}}

(***************************************************************************)
(* The state.                                                              *)
(***************************************************************************)
VARIABLES
    processing_tasks,  \* the task table: task id -> record, without the Event
    cancel_flag,       \* the Event of each task: is it set
    now,               \* datetime.now(), in hours
    up,                \* each upload request: where it is, and its locals
    cn,                \* the cancel request in flight
    pl                 \* the progress request in flight

vars == <<processing_tasks, cancel_flag, now, up, cn, pl>>

\* A progress value processed / total * 100, kept as the fraction n / d.
Progress(n, d) == [n |-> n, d |-> d]

ProgressLeq(p, q) == p.n * q.d <= q.n * p.d

ProgressIs100(p) == p.n = 100 * p.d

\* The record upload_pdf stores for a new task (lines 193-198); the keys
\* process_pdf adds later hold -1 or "" until then.
NewTask ==
    [progress |-> Progress(0, 1), created_at |-> now, status |-> "processing",
     total_pages |-> -1, processed_pages |-> -1, current_section |-> "",
     completed_at |-> -1]

\* A cleanup that spares the tasks still marked processing.
CleanupSparesProcessing(tasks) ==
    LET keep == {t \in DOMAIN tasks :
                    \/ ~(now - tasks[t].created_at > RetentionHours)
                    \/ tasks[t].status = "processing"}
    IN  [t \in keep |-> tasks[t]]

\* cleanup_old_tasks(): the table without the tasks older than one hour.
cleanup_old_tasks(tasks) ==
    LET keep == {t \in DOMAIN tasks : ~(now - tasks[t].created_at > RetentionHours)}
    IN  [t \in keep |-> tasks[t]]

NoResults == [s \in Sections |-> <<>>]

\* A dict handed back as JSON: its "error" entry ("" when it has none), its
\* section lists (by section key) and its "task_id" entry.
Body(error, lists, task_id) == [error |-> error, lists |-> lists, task_id |-> task_id]

NoBody == Body("", <<>>, "")

NoResponse == [code |-> 0, body |-> NoBody]

\* What Flask answers when a handler raises.
InternalServerError == [code |-> 500, body |-> NoBody]

IdleUpload ==
    [pc |-> "idle", req |-> NoRequest, doc |-> NoDocument, sec |-> 0, pg |-> 0,
     results |-> NoResults, result |-> NoBody, text |-> <<>>, li |-> 0,
     in_section |-> FALSE, numbers |-> <<>>, origin |-> <<>>, ret |-> <<>>,
     via |-> 0, set_at_start |-> FALSE, resp |-> NoResponse]

IdleCancel == [pc |-> "idle", id |-> UnknownId, code |-> 0]

\* Of the answer of get_progress the code and the "status" entry are kept;
\* its "progress" and "current_section" entries are those of the task record.
IdleProgress == [id |-> UnknownId, code |-> 0, status |-> ""]

Init ==
    /\ processing_tasks = <<>>
    /\ cancel_flag = [t \in TaskIds |-> FALSE]
    /\ now = 0
    /\ up = [r \in Uploads |-> IdleUpload]
    /\ cn = IdleCancel
    /\ pl = IdleProgress

(***************************************************************************)
(* extract_section_numbers(text, section), lines 68-132.  The text is      *)
(* up[r].text and the section is section_order[up[r].sec].  origin holds,  *)
(* for each element of numbers, the index of the line it was matched on.   *)
(***************************************************************************)
\* A call that finds the flag as the call before left it.
ExtractEnterKeepsFlag(r) ==
    /\ up[r].pc = "enter"
    /\ up' = [up EXCEPT ![r] =
           IF cancel_flag[r] \/ up[r].text = <<>>
           THEN [@ EXCEPT !.pc = "returned", !.ret = <<>>, !.via = 70]
           ELSE [@ EXCEPT !.pc = "line", !.numbers = <<>>, !.origin = <<>>,
                          !.li = 1, !.ret = <<>>, !.via = 0]]
    /\ UNCHANGED <<processing_tasks, cancel_flag, now, cn, pl>>

\* Lines 69-73: the first check of the signal and of the text.
ExtractEnter(r) ==
    /\ up[r].pc = "enter"
    /\ up' = [up EXCEPT ![r] =
           IF cancel_flag[r] \/ up[r].text = <<>>
           THEN [@ EXCEPT !.pc = "returned", !.ret = <<>>, !.via = 70]
           ELSE [@ EXCEPT !.pc = "line", !.numbers = <<>>, !.origin = <<>>,
                          !.in_section = FALSE, !.li = 1, !.ret = <<>>, !.via = 0]]
    /\ UNCHANGED <<processing_tasks, cancel_flag, now, cn, pl>>

\* A loop that, finding the signal set, returns what it has collected.
ExtractLineKeepsCollected(r) ==
    /\ up[r].pc = "line"
    /\ LET lines == SplitLines(up[r].text)
           scan == ScanLine(section_order[up[r].sec], lines[up[r].li], up[r].in_section)
       IN  up' = [up EXCEPT ![r] =
               IF cancel_flag[r]
               THEN [@ EXCEPT !.pc = "returned",
                              !.ret = _remove_duplicates(up[r].numbers), !.via = 79]
               ELSE [@ EXCEPT
                       !.in_section = scan.in_section,
                       !.numbers = @ \o scan.matches,
                       !.origin = @ \o [k \in 1..Len(scan.matches) |-> up[r].li],
                       !.li = @ + 1,
                       !.pc = IF scan.stop \/ up[r].li = Len(lines)
                              THEN "exit" ELSE "line"]]
    /\ UNCHANGED <<processing_tasks, cancel_flag, now, cn, pl>>

\* One turn of the loop over the lines of the section's branch.
ExtractLine(r) ==
    /\ up[r].pc = "line"
    /\ LET lines == SplitLines(up[r].text)
           scan == ScanLine(section_order[up[r].sec], lines[up[r].li], up[r].in_section)
       IN  up' = [up EXCEPT ![r] =
               IF cancel_flag[r]
               THEN [@ EXCEPT !.pc = "returned", !.ret = <<>>, !.via = 79]
               ELSE [@ EXCEPT
                       !.in_section = scan.in_section,
                       !.numbers = @ \o scan.matches,
                       !.origin = @ \o [k \in 1..Len(scan.matches) |-> up[r].li],
                       !.li = @ + 1,
                       !.pc = IF scan.stop \/ up[r].li = Len(lines)
                              THEN "exit" ELSE "line"]]
    /\ UNCHANGED <<processing_tasks, cancel_flag, now, cn, pl>>

\* Line 132, after the loop.
ExtractReturn(r) ==
    /\ up[r].pc = "exit"
    /\ up' = [up EXCEPT ![r] =
           [@ EXCEPT !.pc = "returned", !.ret = _remove_duplicates(up[r].numbers),
                     !.via = 132]]
    /\ UNCHANGED <<processing_tasks, cancel_flag, now, cn, pl>>

\* The extractor of task A called on a page text of a section, the signal
\* set or not.
InitExtract ==
    /\ now = 0
    /\ processing_tasks = [t \in {"A"} |-> NewTask]
    /\ \E flag \in BOOLEAN : cancel_flag = [t \in TaskIds |-> t = "A" /\ flag]
    /\ cn = IdleCancel
    /\ pl = IdleProgress
    /\ \E k \in 1..Len(section_order) : \E text \in PageTexts(section_order[k]) :
           up = [r \in Uploads |->
                    IF r = "A"
                    THEN [IdleUpload EXCEPT
                            !.pc = "enter", !.sec = k, !.pg = 1, !.text = text,
                            !.doc = [opens |-> TRUE,
                                     pages |-> <<[raises |-> FALSE, text |-> text]>>]]
                    ELSE IdleUpload]

NextExtract == ExtractEnter("A") \/ ExtractLine("A") \/ ExtractReturn("A")

SpecExtract == InitExtract /\ [][NextExtract]_vars

(***************************************************************************)
(* upload_pdf, lines 174-210, with TMJNumberExtractor.__init__ and         *)
(* process_pdf, lines 134-172.  A step is what the handler does between    *)
(* two places where another request can run.                               *)
(***************************************************************************)
CancelledMessage == "Processing cancelled by user"

PdfErrorMessage == "Error processing PDF"

\* A validation that forgets the size limit.
ValidationErrorWithoutSize(req) ==
    IF ~req.has_file THEN "No file uploaded"
    ELSE IF ~LowerEndsWith(req.filename, DotPdf) THEN "Only PDF files are allowed"
    ELSE ""

\* Lines 178-190: the message of the 400 answer, "" for an upload that is
\* accepted.
ValidationError(req) ==
    IF ~req.has_file THEN "No file uploaded"
    ELSE IF ~LowerEndsWith(req.filename, DotPdf) THEN "Only PDF files are allowed"
    ELSE IF req.size > MaxUploadBytes THEN "File size exceeds 50MB limit"
    ELSE ""

\* A request reaches the server: its form and the document it carries.
UploadArrive(r) ==
    /\ up[r].pc = "idle"
    /\ \E req \in UploadRequests : \E doc \in Documents :
           up' = [up EXCEPT ![r] = [@ EXCEPT !.pc = "arrived", !.req = req,
                                             !.doc = IF req.has_file THEN doc
                                                     ELSE NoDocument]]
    /\ UNCHANGED <<processing_tasks, cancel_flag, now, cn, pl>>

\* Lines 176-198: the cleanup, the validation, the new task.
UploadValidate(r) ==
    /\ up[r].pc = "arrived"
    /\ LET tasks == cleanup_old_tasks(processing_tasks)
           error == ValidationError(up[r].req)
       IN  IF error # ""
           THEN /\ processing_tasks' = tasks
                /\ cancel_flag' = cancel_flag
                /\ up' = [up EXCEPT ![r] =
                       [@ EXCEPT !.pc = "done",
                                 !.resp = [code |-> 400, body |-> Body(error, <<>>, "")]]]
           ELSE /\ processing_tasks' =
                       [t \in DOMAIN tasks \cup {r} |->
                           IF t = r THEN NewTask ELSE tasks[t]]
                /\ cancel_flag' = [cancel_flag EXCEPT ![r] = FALSE]
                /\ up' = [up EXCEPT ![r] = [@ EXCEPT !.pc = "init", !.req = NoRequest]]
    /\ UNCHANGED <<now, cn, pl>>

\* The handler raises: the request ends with Flask's answer.
Raise(r) ==
    up' = [up EXCEPT ![r] = [@ EXCEPT !.pc = "done", !.resp = InternalServerError]]

\* An error value that keeps the lists collected so far.
ReturnPdfErrorWithLists(r) ==
    up' = [up EXCEPT ![r] =
        [@ EXCEPT !.pc = "check",
                  !.result = Body(PdfErrorMessage, up[r].results, "")]]

\* process_pdf catches an exception (lines 168-170) and returns the error.
ReturnPdfError(r) ==
    up' = [up EXCEPT ![r] =
        [@ EXCEPT !.pc = "check", !.result = Body(PdfErrorMessage, <<>>, "")]]

\* Lines 200 and 39-41: the extractor takes the Event out of the task record.
UploadInit(r) ==
    /\ up[r].pc = "init"
    /\ IF r \in DOMAIN processing_tasks
       THEN up' = [up EXCEPT ![r] = [@ EXCEPT !.pc = "open"]]
       ELSE Raise(r)
    /\ UNCHANGED <<processing_tasks, cancel_flag, now, cn, pl>>

\* Lines 135-142: the document is opened and the counters are stored.
ProcessOpen(r) ==
    /\ up[r].pc = "open"
    /\ IF up[r].doc.opens /\ r \in DOMAIN processing_tasks
       THEN /\ processing_tasks' = [processing_tasks EXCEPT ![r] =
                   [@ EXCEPT !.total_pages = Len(up[r].doc.pages) * Len(section_order),
                             !.processed_pages = 0,
                             !.progress = Progress(0, 1)]]
            /\ up' = [up EXCEPT ![r] =
                   [@ EXCEPT !.pc = "section", !.sec = 1, !.results = NoResults]]
       ELSE /\ ReturnPdfError(r)
            /\ UNCHANGED processing_tasks
    /\ UNCHANGED <<cancel_flag, now, cn, pl>>

\* Lines 144-147: the head of the loop over the sections.
ProcessSection(r) ==
    /\ up[r].pc = "section"
    /\ IF up[r].sec > Len(section_order) \/ cancel_flag[r]
       THEN /\ up' = [up EXCEPT ![r] =
                   [@ EXCEPT !.pc = "collect",
                             !.set_at_start = cancel_flag[r] /\ up[r].sec = 1]]
            /\ UNCHANGED processing_tasks
       ELSE IF r \in DOMAIN processing_tasks
       THEN /\ processing_tasks' = [processing_tasks EXCEPT ![r] =
                   [@ EXCEPT !.current_section = section_order[up[r].sec]]]
            /\ up' = [up EXCEPT ![r] = [@ EXCEPT !.pc = "page", !.pg = 1]]
       ELSE /\ ReturnPdfError(r)
            /\ UNCHANGED processing_tasks
    /\ UNCHANGED <<cancel_flag, now, cn, pl>>

\* Lines 149-156: the head of the loop over the pages, and the progress.
ProcessPage(r) ==
    /\ up[r].pc = "page"
    /\ IF up[r].pg > Len(up[r].doc.pages) \/ cancel_flag[r]
       THEN /\ up' = [up EXCEPT ![r] = [@ EXCEPT !.pc = "section", !.sec = @ + 1]]
            /\ UNCHANGED processing_tasks
       ELSE IF r \in DOMAIN processing_tasks
       THEN /\ processing_tasks' = [processing_tasks EXCEPT ![r] =
                   [@ EXCEPT !.processed_pages = @ + 1,
                             !.progress = Progress(
                                 (processing_tasks[r].processed_pages + 1) * 100,
                                 processing_tasks[r].total_pages)]]
            /\ up' = [up EXCEPT ![r] = [@ EXCEPT !.pc = "text"]]
       ELSE /\ ReturnPdfError(r)
            /\ UNCHANGED processing_tasks
    /\ UNCHANGED <<cancel_flag, now, cn, pl>>

\* A page whose text cannot be extracted ends the document.
ProcessTextAborts(r) ==
    /\ up[r].pc = "text"
    /\ LET page == up[r].doc.pages[up[r].pg]
       IN  up' = [up EXCEPT ![r] =
               IF page.raises
               THEN [@ EXCEPT !.pc = "check", !.result = Body(PdfErrorMessage, <<>>, "")]
               ELSE [@ EXCEPT !.pc = "enter", !.text = page.text]]
    /\ UNCHANGED <<processing_tasks, cancel_flag, now, cn, pl>>

\* Lines 158-164: the text of the page; a page that raises is skipped.
ProcessText(r) ==
    /\ up[r].pc = "text"
    /\ LET page == up[r].doc.pages[up[r].pg]
       IN  up' = [up EXCEPT ![r] =
               IF page.raises
               THEN [@ EXCEPT !.pc = "page", !.pg = @ + 1]
               ELSE [@ EXCEPT !.pc = "enter", !.text = page.text]]
    /\ UNCHANGED <<processing_tasks, cancel_flag, now, cn, pl>>

\* The numbers of the page take the place of the section's list.
ProcessExtendReplaces(r) ==
    /\ up[r].pc = "returned"
    /\ up' = [up EXCEPT ![r] =
           [@ EXCEPT !.pc = "page", !.pg = @ + 1,
                     !.results = [@ EXCEPT ![section_order[up[r].sec]] = up[r].ret]]]
    /\ UNCHANGED <<processing_tasks, cancel_flag, now, cn, pl>>

\* Line 161: the numbers of the page join the section's list.
ProcessExtend(r) ==
    /\ up[r].pc = "returned"
    /\ up' = [up EXCEPT ![r] =
           [@ EXCEPT !.pc = "page", !.pg = @ + 1,
                     !.results = [@ EXCEPT ![section_order[up[r].sec]] = @ \o up[r].ret]]]
    /\ UNCHANGED <<processing_tasks, cancel_flag, now, cn, pl>>

\* Line 166: every section's list without its duplicates.
ProcessReturn(r) ==
    /\ up[r].pc = "collect"
    /\ up' = [up EXCEPT ![r] =
           [@ EXCEPT !.pc = "check",
                     !.result = Body("", [k \in Sections |->
                                            _remove_duplicates(up[r].results[k])], "")]]
    /\ UNCHANGED <<processing_tasks, cancel_flag, now, cn, pl>>

\* Lines 203-204: a set signal replaces the result.
UploadCheck(r) ==
    /\ up[r].pc = "check"
    /\ IF r \in DOMAIN processing_tasks
       THEN up' = [up EXCEPT ![r] =
               [@ EXCEPT !.pc = "finish",
                         !.result = IF cancel_flag[r]
                                    THEN Body(CancelledMessage, <<>>, "")
                                    ELSE @]]
       ELSE Raise(r)
    /\ UNCHANGED <<processing_tasks, cancel_flag, now, cn, pl>>

\* Lines 206-210: the status, and the answer.
UploadFinish(r) ==
    /\ up[r].pc = "finish"
    /\ IF r \in DOMAIN processing_tasks
       THEN /\ processing_tasks' = [processing_tasks EXCEPT ![r] =
                   [@ EXCEPT !.status = "completed", !.completed_at = now]]
            /\ up' = [up EXCEPT ![r] =
                   [@ EXCEPT !.pc = "done",
                             !.resp = [code |-> 200,
                                       body |-> [up[r].result EXCEPT !.task_id = r]]]]
       ELSE /\ Raise(r)
            /\ UNCHANGED processing_tasks
    /\ UNCHANGED <<cancel_flag, now, cn, pl>>

(***************************************************************************)
(* cancel_task, lines 227-239.  cn holds the place of the request in       *)
(* flight and, once it is idle again, the code of the last answer.         *)
(***************************************************************************)
\* A cancel_task that stores a record for a task id it does not find.
CancelRequestCreatesTask(id) ==
    /\ cn.pc = "idle"
    /\ LET tasks == cleanup_old_tasks(processing_tasks)
       IN  processing_tasks' = [t \in DOMAIN tasks \cup {id} |->
                                   IF t \in DOMAIN tasks THEN tasks[t] ELSE NewTask]
    /\ cn' = IF id \in DOMAIN cleanup_old_tasks(processing_tasks)
             THEN [pc |-> "set", id |-> id, code |-> 0]
             ELSE [pc |-> "idle", id |-> id, code |-> 404]
    /\ UNCHANGED <<cancel_flag, now, up, pl>>

\* Lines 229-232: the cleanup and the look-up.
CancelRequest(id) ==
    /\ cn.pc = "idle"
    /\ processing_tasks' = cleanup_old_tasks(processing_tasks)
    /\ cn' = IF id \in DOMAIN processing_tasks'
             THEN [pc |-> "set", id |-> id, code |-> 0]
             ELSE [pc |-> "idle", id |-> id, code |-> 404]
    /\ UNCHANGED <<cancel_flag, now, up, pl>>

\* A cancel_task whose signal is one Event shared by all the tasks.
CancelSetShared ==
    /\ cn.pc = "set"
    /\ IF cn.id \in DOMAIN processing_tasks
       THEN /\ cancel_flag' = [t \in TaskIds |-> TRUE]
            /\ cn' = [cn EXCEPT !.pc = "status"]
       ELSE /\ cn' = [cn EXCEPT !.pc = "idle", !.code = 500]
            /\ UNCHANGED cancel_flag
    /\ UNCHANGED <<processing_tasks, now, up, pl>>

\* Line 234: the signal is set.
CancelSet ==
    /\ cn.pc = "set"
    /\ IF cn.id \in DOMAIN processing_tasks
       THEN /\ cancel_flag' = [cancel_flag EXCEPT ![cn.id] = TRUE]
            /\ cn' = [cn EXCEPT !.pc = "status"]
       ELSE /\ cn' = [cn EXCEPT !.pc = "idle", !.code = 500]
            /\ UNCHANGED cancel_flag
    /\ UNCHANGED <<processing_tasks, now, up, pl>>

\* Lines 235-239: the status, and the answer.
CancelStatus ==
    /\ cn.pc = "status"
    /\ IF cn.id \in DOMAIN processing_tasks
       THEN /\ processing_tasks' = [processing_tasks EXCEPT ![cn.id] =
                   [@ EXCEPT !.status = "cancelled"]]
            /\ cn' = [cn EXCEPT !.pc = "idle", !.code = 200]
       ELSE /\ cn' = [cn EXCEPT !.pc = "idle", !.code = 500]
            /\ UNCHANGED processing_tasks
    /\ UNCHANGED <<cancel_flag, now, up, pl>>

(***************************************************************************)
(* get_progress, lines 212-225.  pl holds the last answer.                 *)
(***************************************************************************)
\* A get_progress that reports the stored status alone.
GetProgressStoredStatus(id) ==
    /\ processing_tasks' = cleanup_old_tasks(processing_tasks)
    /\ pl' = IF id \in DOMAIN processing_tasks'
             THEN [id |-> id, code |-> 200, status |-> processing_tasks'[id].status]
             ELSE [id |-> id, code |-> 404, status |-> ""]
    /\ UNCHANGED <<cancel_flag, now, up, cn>>

\* Lines 214-225: the cleanup, the look-up and the answer.
GetProgress(id) ==
    /\ processing_tasks' = cleanup_old_tasks(processing_tasks)
    /\ pl' = IF id \in DOMAIN processing_tasks'
             THEN [id |-> id, code |-> 200,
                   status |-> IF cancel_flag[id] THEN "cancelled"
                              ELSE processing_tasks'[id].status]
             ELSE [id |-> id, code |-> 404, status |-> ""]
    /\ UNCHANGED <<cancel_flag, now, up, cn>>

\* An hour passes.
Tick ==
    /\ now < MaxNow
    /\ now' = now + 1
    /\ UNCHANGED <<processing_tasks, cancel_flag, up, cn, pl>>

(***************************************************************************)
(* One upload, A, with cancel and progress requests for A and for an       *)
(* unknown task.                                                           *)
(***************************************************************************)
Upload(r) ==
    \/ UploadArrive(r)
    \/ UploadValidate(r)
    \/ UploadInit(r)
    \/ ProcessOpen(r)
    \/ ProcessSection(r)
    \/ ProcessPage(r)
    \/ ProcessText(r)
    \/ ExtractEnter(r)
    \/ ExtractLine(r)
    \/ ExtractReturn(r)
    \/ ProcessExtend(r)
    \/ ProcessReturn(r)
    \/ UploadCheck(r)
    \/ UploadFinish(r)

Next ==
    \/ Upload("A")
    \/ \E id \in {"A", UnknownId} : CancelRequest(id)
    \/ CancelSet
    \/ CancelStatus
    \/ \E id \in {"A", UnknownId} : GetProgress(id)
    \/ Tick

Spec == Init /\ [][Next]_vars

(***************************************************************************)
(* extract_section_numbers(text, section) when the signal stays clear, as  *)
(* a function of its arguments: the loop over the lines, then line 132.    *)
(***************************************************************************)
RECURSIVE ScanFrom(_, _, _, _)
ScanFrom(section, lines, i, in_section) ==
    IF i > Len(lines) THEN <<>>
    ELSE LET scan == ScanLine(section, lines[i], in_section)
         IN  scan.matches \o (IF scan.stop THEN <<>>
                              ELSE ScanFrom(section, lines, i + 1, scan.in_section))

extract_section_numbers(text, section) ==
    IF text = <<>> THEN <<>>
    ELSE _remove_duplicates(ScanFrom(section, SplitLines(text), 1, FALSE))

(***************************************************************************)
(* Two uploads, A and B, processed at the same time, with cancel requests  *)
(* for A.  Both requests have passed the validation; each carries a        *)
(* document of one page; all of it happens within the hour, so that the    *)
(* cleanup of the handlers finds nothing to remove.                        *)
(***************************************************************************)
\* The page text "following trade marks registration renewed 11111\n99999".
RenewalText == JoinLines(<<RenLine1, RenLine2>>)

OnePageDocuments ==
    {[opens |-> TRUE, pages |-> <<[raises |-> FALSE, text |-> t]>>] :
        t \in {ExampleText, RenewalText}}

ValidRequest ==
    [has_file |-> TRUE, filename |-> <<"a",".","p","d","f">>, size |-> 1]

InitIsolation ==
    /\ processing_tasks = <<>>
    /\ cancel_flag = [t \in TaskIds |-> FALSE]
    /\ now = 0
    /\ cn = IdleCancel
    /\ pl = IdleProgress
    /\ \E da \in OnePageDocuments : \E db \in OnePageDocuments :
           up = [r \in Uploads |->
                    [IdleUpload EXCEPT !.pc = "arrived", !.req = ValidRequest,
                                       !.doc = IF r = "A" THEN da ELSE db]]

NextIsolation ==
    \/ \E r \in Uploads :
           \/ UploadValidate(r)
           \/ UploadInit(r)
           \/ ProcessOpen(r)
           \/ ProcessSection(r)
           \/ ProcessPage(r)
           \/ ProcessText(r)
           \/ ExtractEnter(r)
           \/ ExtractLine(r)
           \/ ExtractReturn(r)
           \/ ProcessExtend(r)
           \/ ProcessReturn(r)
           \/ UploadCheck(r)
           \/ UploadFinish(r)
    \/ CancelRequest("A")
    \/ CancelSet
    \/ CancelStatus

SpecIsolation == InitIsolation /\ [][NextIsolation]_vars

(***************************************************************************)
(* One upload, A, of a document of several pages, with no other request:   *)
(* process_pdf from its call at line 201 to its return.                    *)
(***************************************************************************)
MaxDocPages == 2

\* The page text "PR SECTION 11111 -\n12345 - 99999".
PrSectionText == JoinLines(<<PrLine1, PrLine2>>)

\* The page text "12345 - 99999", with no marker of any section.
PlainText == PrLine2

\* page.extract_text() raises, returns nothing, or returns one of four texts.
DocPages ==
    Pages \cup {[raises |-> FALSE, text |-> t] :
                   t \in {RenewalText, PrSectionText, PlainText}}

InitDocument ==
    /\ processing_tasks = <<>>
    /\ cancel_flag = [t \in TaskIds |-> FALSE]
    /\ now = 0
    /\ cn = IdleCancel
    /\ pl = IdleProgress
    /\ \E n \in 0..MaxDocPages : \E ps \in [1..n -> DocPages] :
           up = [r \in Uploads |->
                    IF r = "A"
                    THEN [IdleUpload EXCEPT !.pc = "arrived", !.req = ValidRequest,
                                            !.doc = [opens |-> TRUE, pages |-> ps]]
                    ELSE IdleUpload]

NextDocument ==
    \/ UploadValidate("A")
    \/ UploadInit("A")
    \/ ProcessOpen("A")
    \/ ProcessSection("A")
    \/ ProcessPage("A")
    \/ ProcessText("A")
    \/ ExtractEnter("A")
    \/ ExtractLine("A")
    \/ ExtractReturn("A")
    \/ ProcessExtend("A")
    \/ ProcessReturn("A")
    \/ UploadCheck("A")
    \/ UploadFinish("A")

SpecDocument == InitDocument /\ [][NextDocument]_vars

(***************************************************************************)
(* The extractor of task A called on a page text of a section while a      *)
(* cancel request for A may set the signal at any moment.                  *)
(***************************************************************************)
NextExtractCancel ==
    \/ ExtractEnter("A")
    \/ ExtractLine("A")
    \/ ExtractReturn("A")
    \/ CancelRequest("A")
    \/ CancelSet
    \/ CancelStatus

SpecExtractCancel == InitExtract /\ [][NextExtractCancel]_vars

(***************************************************************************)
(* The claims about extract_section_numbers, under SpecExtract.            *)
(***************************************************************************)
\* The call of the extractor under study, its section and its lines.
Ex == up["A"]

ExSection == section_order[Ex.sec]

ExLines == SplitLines(Ex.text)

\* The lines the loop has gone through so far.
Examined == IF Ex.pc \in {"line", "exit", "returned"} /\ Ex.via # 70
            THEN 1..(Ex.li - 1) ELSE {}

\* What line i added to numbers: the elements of numbers matched on line i.
Contribution(i) ==
    LET at == {k \in 1..Len(Ex.origin) : Ex.origin[k] = i}
    IN  IF at = {} THEN <<>>
        ELSE SubSeq(Ex.numbers, CHOOSE k \in at : \A j \in at : k <= j,
                                CHOOSE k \in at : \A j \in at : j <= k)

FirstIndex(seq, x) ==
    CHOOSE k \in 1..Len(seq) : seq[k] = x /\ \A j \in 1..(k - 1) : seq[j] # x

IsCorrigendaMarker(i) == MarkerSearch(MarkerCorrigenda, ExLines[i])

IsRenewalMarker(i) == MarkerSearch(MarkerRenewal, ExLines[i])

\* C1: for every section and page text the returned list holds no token
\* twice, holds exactly the tokens of the raw sequence of matches collected
\* over all the lines of the text, and holds them in the order of their first
\* occurrence in that sequence.
C1_NoDuplicatesFirstOccurrenceOrder ==
    Ex.pc = "returned" =>
        /\ \A a, b \in 1..Len(Ex.ret) : a # b => Ex.ret[a] # Ex.ret[b]
        /\ Ex.via = 132 =>
            /\ {Ex.ret[k] : k \in 1..Len(Ex.ret)}
                   = {Ex.numbers[k] : k \in 1..Len(Ex.numbers)}
            /\ \A a, b \in 1..Len(Ex.ret) :
                   a < b => FirstIndex(Ex.numbers, Ex.ret[a])
                                < FirstIndex(Ex.numbers, Ex.ret[b])

\* A call has returned a list shorter than the raw matches, a token having
\* been matched on two different lines, with another token between.
C1_Witness ==
    /\ Ex.pc = "returned" /\ Ex.via = 132
    /\ Len(Ex.ret) >= 2
    /\ \E a, b \in 1..Len(Ex.numbers) :
           /\ a + 1 < b
           /\ Ex.numbers[a] = Ex.numbers[b]
           /\ Ex.origin[a] # Ex.origin[b]
           /\ Ex.numbers[a + 1] # Ex.numbers[a]

\* C2: for section corrigenda no token is taken from a line before the first
\* CORRIGENDA marker line, from a CORRIGENDA marker line, or from the first
\* line matching the renewal marker or a line after it; and every line
\* matching the renewal marker ends the scan of the page text.
C2_CorrigendaBetweenMarkers ==
    ExSection = "corrigenda" =>
        /\ \A k \in 1..Len(Ex.origin) :
               /\ \E j \in 1..(Ex.origin[k] - 1) : IsCorrigendaMarker(j)
               /\ ~IsCorrigendaMarker(Ex.origin[k])
               /\ \A j \in 1..Ex.origin[k] : ~IsRenewalMarker(j)
        /\ \A j \in Examined :
               IsRenewalMarker(j) => Ex.pc \in {"exit", "returned"} /\ Ex.li = j + 1

\* C3: for section renewal no token is taken from a line before the first
\* renewal marker line or from a marker line; once a marker line has been
\* seen the extractor is inside for every remaining line, whatever the line
\* holds, every line of the text is scanned, and such a line adds the bounded
\* digit runs of length >= 5 and then the digit runs after 'Application No'.
C3_RenewalAfterMarker ==
    ExSection = "renewal" =>
        /\ \A k \in 1..Len(Ex.origin) :
               /\ \E j \in 1..(Ex.origin[k] - 1) : IsRenewalMarker(j)
               /\ ~IsRenewalMarker(Ex.origin[k])
        /\ (\E j \in Examined : IsRenewalMarker(j)) => Ex.in_section
        /\ (Ex.pc = "returned" /\ Ex.via = 132) => Ex.li = Len(ExLines) + 1
        /\ \A i \in Examined :
               ((\E j \in 1..(i - 1) : IsRenewalMarker(j)) /\ ~IsRenewalMarker(i))
                   => Contribution(i) = FindAll("renewal0", Strip(ExLines[i]))
                                        \o FindAll("renewal1", Strip(ExLines[i]))

\* A renewal call has returned after a line behind the marker gave a match of
\* each pattern, and after a CORRIGENDA line behind the marker gave a token.
C3_Witness ==
    /\ ExSection = "renewal" /\ Ex.pc = "returned" /\ Ex.via = 132
    /\ \E i \in Examined :
           /\ FindAll("renewal1", Strip(ExLines[i])) # <<>>
           /\ Len(Contribution(i)) > Len(FindAll("renewal0", Strip(ExLines[i])))
    /\ \E i \in Examined : IsCorrigendaMarker(i) /\ Contribution(i) # <<>>

\* The places of line where a whitespace-separated token starts.
TokenStarts(line) ==
    {k \in 1..Len(line) : ~IsSpace(line[k]) /\ (k = 1 \/ IsSpace(line[k - 1]))}

\* Exactly 5 whitespace-separated tokens, all of them purely numeric.
FiveNumericTokens(line) ==
    /\ Cardinality(TokenStarts(line)) = 5
    /\ \A k \in 1..Len(line) : IsSpace(line[k]) \/ IsDigit(line[k])

\* C4: for section rc a line adds tokens if and only if it splits on
\* whitespace into exactly 5 tokens, all purely numeric; it then adds all 5,
\* in order, whatever their length; any other line adds nothing.
C4_RcExactlyFiveNumeric ==
    ExSection = "rc" =>
        \A i \in Examined :
            /\ FiveNumericTokens(ExLines[i]) =>
                   Contribution(i) = Split(ExLines[i]) /\ Len(Contribution(i)) = 5
            /\ ~FiveNumericTokens(ExLines[i]) => Contribution(i) = <<>>

\* An rc call has returned after a line of 5 numeric tokens, one of them
\* shorter than 5 digits, gave its tokens, and after lines of 4 and of 6
\* numeric tokens gave none.
C4_Witness ==
    /\ ExSection = "rc" /\ Ex.pc = "returned" /\ Ex.via = 132
    /\ \E i \in Examined :
           /\ Len(Contribution(i)) = 5
           /\ \E k \in 1..5 : Len(Contribution(i)[k]) < MinDigits
    /\ \E i \in Examined :
           /\ Cardinality(TokenStarts(ExLines[i])) = 6
           /\ \A k \in 1..Len(ExLines[i]) : IsSpace(ExLines[i][k]) \/ IsDigit(ExLines[i][k])
           /\ Contribution(i) = <<>>
    /\ \E i \in Examined :
           /\ Cardinality(TokenStarts(ExLines[i])) = 4
           /\ Contribution(i) = <<>>

(***************************************************************************)
(* The claims about the handlers, under Spec.                              *)
(***************************************************************************)
\* The upload is between the progress update of a page and the end of the
\* page's extraction.
PageInFlight(r) == up[r].pc \in {"text", "enter", "line", "exit", "returned"}

\* The answer of the upload handler is the cancellation error, without any
\* section list.
AnswersCancelled(resp) ==
    /\ resp.code = 200
    /\ resp.body.error = CancelledMessage
    /\ resp.body.lists = <<>>

\* C5: a call of extract_section_numbers that finds the signal set returns
\* the empty list, for every text and section; and when the signal is set as
\* process_pdf starts iterating, no page is processed for any section and the
\* upload answers with the cancellation error and no section list.
C5_SignalSetBeforeInvocation ==
    /\ [][\A r \in Uploads :
              (ExtractEnter(r) /\ cancel_flag[r])
                  => (up'[r].pc = "returned" /\ up'[r].ret = <<>>)]_vars
    /\ [](\A r \in Uploads :
              up[r].set_at_start =>
                  /\ up[r].results = NoResults
                  /\ r \in DOMAIN processing_tasks
                         => processing_tasks[r].processed_pages = 0
                  /\ up[r].pc = "done" => AnswersCancelled(up[r].resp))

\* C6: the progress of a task never decreases, and it is 100 only when every
\* page has been processed for every section: never while a page is still to
\* come or in flight, never when the upload ends cancelled.
C6_ProgressMonotoneAnd100OnlyWhenComplete ==
    /\ [][\A t \in DOMAIN processing_tasks \cap DOMAIN processing_tasks' :
              ProgressLeq(processing_tasks[t].progress,
                          processing_tasks'[t].progress)]_vars
    /\ [](\A t \in DOMAIN processing_tasks :
              ProgressIs100(processing_tasks[t].progress) =>
                  /\ processing_tasks[t].processed_pages
                         = processing_tasks[t].total_pages
                  /\ ~PageInFlight(t)
                  /\ up[t].pc = "done" => ~AnswersCancelled(up[t].resp))

\* C7: when the signal of a task is set before its upload handler returns,
\* the answer of the upload is the cancellation error and holds no section
\* list; an answer holds section lists only if the signal was not set.
C7_CancelBeforeReturnAnswersCancelled ==
    [][\A r \in Uploads :
           (up[r].pc \notin {"arrived", "done"} /\ up'[r].pc = "done" /\ cancel_flag[r])
               => AnswersCancelled(up'[r].resp)]_vars

\* C8: the stored status of a task starts as processing, an accepted cancel
\* request marks it cancelled, a cancelled status never becomes completed
\* and a completed status never changes again.
C8_StatusFinal ==
    /\ [][\A r \in Uploads :
              (UploadValidate(r) /\ r \in DOMAIN processing_tasks')
                  => processing_tasks'[r].status = "processing"]_vars
    /\ [][(CancelStatus /\ cn'.code = 200)
              => processing_tasks'[cn.id].status = "cancelled"]_vars
    /\ [][\A t \in DOMAIN processing_tasks \cap DOMAIN processing_tasks' :
              /\ processing_tasks[t].status = "cancelled"
                     => processing_tasks'[t].status # "completed"
              /\ processing_tasks[t].status = "completed"
                     => processing_tasks'[t].status = "completed"]_vars

\* The upload has no pdf_file field, a file name that does not end in .pdf
\* (in any case of the letters), or more than 50 MB.
InvalidUpload(req) ==
    \/ ~req.has_file
    \/ Len(req.filename) < 4
    \/ <<Lower(req.filename[Len(req.filename) - 3]),
         Lower(req.filename[Len(req.filename) - 2]),
         Lower(req.filename[Len(req.filename) - 1]),
         Lower(req.filename[Len(req.filename)])>> # <<".", "p", "d", "f">>
    \/ req.size > 50 * 1024 * 1024

\* C9: an upload that fails the validation is answered 400; no entry is
\* added to the task table, no signal is created and no extraction starts:
\* the request is over, with no task of its own.
C9_InvalidUploadAllocatesNothing ==
    /\ [][\A r \in Uploads :
              (UploadValidate(r) /\ InvalidUpload(up[r].req)) =>
                  /\ up'[r].pc = "done"
                  /\ up'[r].resp.code = 400
                  /\ up'[r].resp.body.error # ""
                  /\ up'[r].resp.body.lists = <<>>
                  /\ up'[r].resp.body.task_id = ""
                  /\ DOMAIN processing_tasks' \subseteq DOMAIN processing_tasks
                  /\ r \notin DOMAIN processing_tasks'
                  /\ cancel_flag' = cancel_flag]_vars
    /\ [](\A r \in Uploads :
              up[r].resp.code = 400 =>
                  /\ up[r].pc = "done"
                  /\ r \notin DOMAIN processing_tasks
                  /\ up[r].sec = 0 /\ up[r].via = 0)

\* An upload of a .pdf file of more than 50 MB has been answered 400.
C9_Witness ==
    /\ up["A"].pc = "done" /\ up["A"].resp.code = 400
    /\ up["A"].req.has_file
    /\ LowerEndsWith(up["A"].req.filename, DotPdf)
    /\ up["A"].req.size > MaxUploadBytes
    /\ "A" \notin DOMAIN processing_tasks

\* A step of a progress or cancel request for a task id the table lacks
\* sets no signal, adds no entry and leaves every record of the table as it
\* was; the only entries that leave the table are those the cleanup of the
\* handler evicts, older than the retention window.
UnknownTaskFrame(id) ==
    /\ cancel_flag' = cancel_flag
    /\ up' = up
    /\ DOMAIN processing_tasks' \subseteq DOMAIN processing_tasks
    /\ id \notin DOMAIN processing_tasks'
    /\ \A t \in DOMAIN processing_tasks :
           now - processing_tasks[t].created_at <= 1 => t \in DOMAIN processing_tasks'
    /\ \A t \in DOMAIN processing_tasks' : processing_tasks'[t] = processing_tasks[t]

\* C10: a progress or cancel request for a task id that is not in the task
\* table is answered 404 and changes nothing about an existing task: no
\* signal is set, no status or progress is modified, no entry is created.
C10_UnknownTaskId ==
    [][\A id \in TaskIds :
           /\ (CancelRequest(id) /\ id \notin DOMAIN processing_tasks)
                  => (cn'.code = 404 /\ cn'.pc = "idle" /\ UnknownTaskFrame(id))
           /\ (GetProgress(id) /\ id \notin DOMAIN processing_tasks)
                  => (pl'.code = 404 /\ UnknownTaskFrame(id))]_vars

\* Both a cancel and a progress request for the unknown task have been
\* answered 404 while task A is in the table, processing, its signal clear.
C10_Witness ==
    /\ cn.pc = "idle" /\ cn.code = 404 /\ cn.id = UnknownId
    /\ pl.code = 404 /\ pl.id = UnknownId
    /\ "A" \in DOMAIN processing_tasks
    /\ processing_tasks["A"].status = "processing"
    /\ processing_tasks["A"].processed_pages > 0
    /\ ~cancel_flag["A"]

\* A step that runs the cleanup of a handler: the first step of an upload,
\* of a cancel request or of a progress request.
CleanupStep ==
    \/ \E r \in Uploads : UploadValidate(r)
    \/ \E id \in TaskIds : CancelRequest(id)
    \/ \E id \in TaskIds : GetProgress(id)

\* C11: right after the cleanup of any handler the table holds no task
\* created more than one hour earlier, whatever its status; a task of age at
\* most one hour is never removed; a task leaves the table only in the
\* cleanup step of a handler.
C11_EvictionLazyAndAgeBased ==
    /\ [][CleanupStep =>
              \A t \in DOMAIN processing_tasks' :
                  now' - processing_tasks'[t].created_at <= 1]_vars
    /\ [][\A t \in DOMAIN processing_tasks :
              t \notin DOMAIN processing_tasks' =>
                  /\ now - processing_tasks[t].created_at > 1
                  /\ CleanupStep]_vars

\* The task of upload A has been evicted after its upload was answered with
\* a normal response, and a progress request for it has since been answered
\* 404.
C11_Witness ==
    /\ up["A"].pc = "done" /\ up["A"].resp.code = 200
    /\ "A" \notin DOMAIN processing_tasks
    /\ pl.id = "A" /\ pl.code = 404

(***************************************************************************)
(* The claim about two documents processed at the same time, under         *)
(* SpecIsolation.                                                          *)
(***************************************************************************)
\* A step of a cancel request for task A.
CancelStepForA ==
    \/ CancelRequest("A")
    \/ cn.id = "A" /\ (CancelSet \/ CancelStatus)

\* The section lists process_pdf returns for a document processed to its
\* end.
CompleteLists(doc) ==
    [k \in Sections |->
        _remove_duplicates(extract_section_numbers(doc.pages[1].text, k))]

C13_CancellationPolledPerSectionAndPage ==
    /\ [][\A r \in Uploads :
              cancel_flag[r] =>
                  /\ ~(up[r].pc = "page" /\ up'[r].pc = "text")
                  /\ (/\ r \in DOMAIN processing_tasks
                      /\ r \in DOMAIN processing_tasks'
                      /\ processing_tasks[r].processed_pages >= 0) =>
                         /\ processing_tasks'[r].processed_pages
                                = processing_tasks[r].processed_pages
                         /\ processing_tasks'[r].current_section
                                = processing_tasks[r].current_section
                  /\ ProcessPage(r) => up'[r].pc = "section"
                  /\ ProcessSection(r) => up'[r].pc = "collect"
                  /\ UploadCheck(r) =>
                         /\ up'[r].pc = "finish"
                         /\ up'[r].result = Body(CancelledMessage, <<>>, "")
                  /\ UploadFinish(r) => AnswersCancelled(up'[r].resp)]_vars

(***************************************************************************)
(* The claim about a signal set while extract_section_numbers runs, under  *)
(* SpecExtractCancel.                                                      *)
(***************************************************************************)
\* C14: extract_section_numbers tests the signal before it starts and
\* before each line, and a test that finds it set returns the empty list,
\* whatever was collected from the lines before; for every text, section
\* and moment at which the signal is set the returned list is empty or is
\* the full result for the text, never a part of it.
C14_CancelledExtractionReturnsNothing ==
    /\ [][\A r \in Uploads :
              ((ExtractEnter(r) \/ ExtractLine(r)) /\ cancel_flag[r]) =>
                  /\ up'[r].pc = "returned"
                  /\ up'[r].ret = <<>>]_vars
    /\ [](\A r \in Uploads :
              up[r].pc = "returned" =>
                  \/ up[r].ret = <<>>
                  \/ /\ up[r].via = 132
                     /\ up[r].ret = extract_section_numbers(
                                        up[r].text, section_order[up[r].sec]))

\* The signal was found set before the second or a later line, and the
\* call returned the empty list although numbers had been collected that
\* are part of the full result.
C14_Witness ==
    /\ Ex.pc = "returned" /\ Ex.via = 79 /\ Ex.ret = <<>>
    /\ Ex.li > 1 /\ Ex.numbers # <<>>
    /\ extract_section_numbers(Ex.text, ExSection) # _remove_duplicates(Ex.numbers)
    /\ cn.id = "A" /\ cancel_flag["A"]

(***************************************************************************)
(* The claims about process_pdf on a whole document, under SpecDocument.   *)
(***************************************************************************)
\* The numbers of the pages i, i + 1, ... of a document for a section, one
\* page after the other; a page whose text cannot be extracted gives none.
RECURSIVE NumbersFrom(_, _, _)
NumbersFrom(pages, i, section) ==
    IF i > Len(pages) THEN <<>>
    ELSE (IF pages[i].raises THEN <<>>
          ELSE extract_section_numbers(pages[i].text, section))
         \o NumbersFrom(pages, i + 1, section)

\* A section's list for a document processed to its end.
SectionList(pages, section) == _remove_duplicates(NumbersFrom(pages, 1, section))

\* Some page of the document raises when its text is extracted.
HasFailingPage(doc) == \E i \in 1..Len(doc.pages) : doc.pages[i].raises

\* C15: a page whose text cannot be extracted is skipped and nothing more:
\* the step leaves the lists and the task record as they are and goes on
\* to the next page; the page has been counted as a processed unit; and
\* (no cancel request, no failure of the document as a whole) process_pdf
\* returns the section mapping, without an error entry, in which that page
\* contributes nothing to any section and every other page contributes its
\* numbers to every section.
C15_PageFailureRecoveredLocally ==
    /\ [][\A r \in Uploads :
              (ProcessText(r) /\ up[r].doc.pages[up[r].pg].raises) =>
                  /\ up'[r].pc = "page"
                  /\ up'[r].pg = up[r].pg + 1
                  /\ up'[r].sec = up[r].sec
                  /\ up'[r].results = up[r].results
                  /\ processing_tasks' = processing_tasks
                  /\ processing_tasks[r].processed_pages
                         = (up[r].sec - 1) * Len(up[r].doc.pages) + up[r].pg]_vars
    /\ [](\A r \in Uploads :
              (up[r].pc \in {"check", "finish", "done"} /\ HasFailingPage(up[r].doc)) =>
                  /\ up[r].result.error = ""
                  /\ DOMAIN up[r].result.lists = Sections
                  /\ \A k \in Sections :
                         up[r].result.lists[k] = SectionList(up[r].doc.pages, k)
                  /\ processing_tasks[r].processed_pages
                         = Len(up[r].doc.pages) * Len(section_order)
                  /\ ProgressIs100(processing_tasks[r].progress))

\* A document of two pages has been processed: the first page raised, the
\* second gave numbers to a section.
C15_Witness ==
    /\ up["A"].pc = "done"
    /\ Len(up["A"].doc.pages) = 2
    /\ up["A"].doc.pages[1].raises /\ ~up["A"].doc.pages[2].raises
    /\ up["A"].resp.code = 200
    /\ up["A"].resp.body.lists["corrigenda"] # <<>>

\* The lists extract_section_numbers returns for the pages i, i + 1, ... of
\* a document and a section, joined in the order of the pages.
RECURSIVE ConcatenatedFrom(_, _, _)
ConcatenatedFrom(pages, i, section) ==
    IF i > Len(pages) THEN <<>>
    ELSE extract_section_numbers(pages[i].text, section)
         \o ConcatenatedFrom(pages, i + 1, section)

\* out holds every element of all once, in the order of the first
\* occurrences in all.
IsFirstOccurrenceList(out, all) ==
    /\ {out[i] : i \in 1..Len(out)} = {all[i] : i \in 1..Len(all)}
    /\ \A i \in 1..Len(out) : \A j \in 1..Len(out) :
           i < j => FirstIndex(all, out[i]) < FirstIndex(all, out[j])

\* C17: for a document processed to its end without cancellation or
\* failure, the final list of each section is the list of the first
\* occurrences in the concatenation, in page order, of
\* extract_section_numbers(page text, section) over all the pages: a
\* function of the page texts and of that section alone.
C17_SectionListIsDeduplicatedConcatenation ==
    \A r \in Uploads :
        (/\ up[r].pc \in {"check", "finish", "done"}
         /\ ~HasFailingPage(up[r].doc)
         /\ ~cancel_flag[r]) =>
            /\ up[r].result.error = ""
            /\ \A k \in Sections :
                   IsFirstOccurrenceList(up[r].result.lists[k],
                                         ConcatenatedFrom(up[r].doc.pages, 1, k))
            /\ up[r].pc = "done" =>
                   /\ up[r].resp.code = 200
                   /\ up[r].resp.body.lists = up[r].result.lists

\* A document of two pages with the same text has been processed: the
\* number both pages give is once in the section's list.
C17_Witness ==
    /\ up["A"].pc = "done" /\ up["A"].resp.code = 200
    /\ Len(up["A"].doc.pages) = 2
    /\ up["A"].doc.pages[1] = [raises |-> FALSE, text |-> ExampleText]
    /\ up["A"].doc.pages[2] = [raises |-> FALSE, text |-> ExampleText]
    /\ Len(up["A"].resp.body.lists["corrigenda"]) = 1
    /\ Len(ConcatenatedFrom(up["A"].doc.pages, 1, "corrigenda")) = 2

(***************************************************************************)
(* The claims about the value of process_pdf and about eviction, under    *)
(* Spec.                                                                   *)
(***************************************************************************)
\* The value is a mapping with exactly the five section keys.
IsSectionMapping(result) ==
    /\ result.error = ""
    /\ DOMAIN result.lists = {"advertisement", "corrigenda", "rc", "renewal", "pr_section"}

\* The value is a mapping with an error entry and nothing else.
IsErrorValue(result) ==
    /\ result.error = PdfErrorMessage
    /\ result.lists = <<>>
    /\ result.task_id = ""

\* C16: process_pdf returns a mapping with exactly the five section keys
\* or a mapping with a single error entry, never both in one; a document
\* that cannot be opened gives the error value, and a failure of the
\* document as a whole gives the error value without the lists collected
\* so far.
C16_ProcessPdfReturnsOneOfTwoShapes ==
    /\ [](\A r \in Uploads :
              up[r].pc = "check" =>
                  /\ IsSectionMapping(up[r].result) \/ IsErrorValue(up[r].result)
                  /\ ~(IsSectionMapping(up[r].result) /\ IsErrorValue(up[r].result))
                  /\ ~up[r].doc.opens => IsErrorValue(up[r].result))
    /\ [][\A r \in Uploads :
              (/\ up[r].pc \in {"open", "section", "page"}
               /\ up'[r].pc = "check") => IsErrorValue(up'[r].result)]_vars

\* process_pdf has returned the error value for a document that opened,
\* after numbers had been collected for a section.
C16_Witness ==
    /\ up["A"].pc = "check"
    /\ IsErrorValue(up["A"].result)
    /\ up["A"].doc.opens
    /\ up["A"].results["advertisement"] # <<>>

\* The upload handler has stored the task and has not yet returned.
InFlight(r) ==
    up[r].pc \in {"init", "open", "section", "page", "text", "enter", "line",
                  "exit", "returned", "collect", "check", "finish"}

\* C18: while an upload is in flight its task record stays in the task
\* table, whatever the other handlers and their cleanup do, so that the
\* upload handler and process_pdf never look up a record that is gone:
\* process_pdf returns no error for a document that opens, and the upload
\* ends with a normal response (the lists or the cancellation error) and a
\* stored status that is final.
C18_InFlightTaskStaysInTable ==
    \A r \in Uploads :
        /\ InFlight(r) => r \in DOMAIN processing_tasks
        /\ (up[r].pc = "check" /\ up[r].doc.opens) => up[r].result.error = ""
        /\ (up[r].pc = "done" /\ up[r].resp.code # 400) =>
               /\ up[r].resp.code = 200
               /\ up[r].resp.body.task_id = r

\* C19: the signal of a task is never cleared once it is set, and a
\* progress request that finds the task reports the status cancelled
\* exactly when the signal is set, whatever the stored status: after the
\* upload handler has finished, and for a cancel request accepted after
\* the task completed, as well.
C19_PollReportsCancelledIffSignalSet ==
    /\ [][\A t \in TaskIds : cancel_flag[t] => cancel_flag'[t]]_vars
    /\ [][\A id \in TaskIds :
              (GetProgress(id) /\ pl'.code = 200) =>
                  /\ pl'.id = id
                  /\ (pl'.status = "cancelled") <=> cancel_flag[id]
                  /\ ~cancel_flag[id] => pl'.status = processing_tasks[id].status]_vars
    /\ [](\A t \in DOMAIN processing_tasks :
              processing_tasks[t].status = "cancelled" => cancel_flag[t])

\* A progress request has reported cancelled for task A after the upload
\* handler finished, the stored status being completed.
C19_Witness ==
    /\ pl.id = "A" /\ pl.code = 200 /\ pl.status = "cancelled"
    /\ up["A"].pc = "done"
    /\ "A" \in DOMAIN processing_tasks
    /\ processing_tasks["A"].status = "completed"
    /\ cancel_flag["A"]

(***************************************************************************)
(* The claim about the flag of a section across the pages, under           *)
(* SpecDocument.                                                           *)
(***************************************************************************)
MarkedSections == {"corrigenda", "renewal", "pr_section"}

\* Some line of the text holds the marker that opens the section.
HasMarkerLine(text, section) ==
    LET marker == CASE section = "corrigenda" -> MarkerCorrigenda
                    [] section = "renewal" -> MarkerRenewal
                    [] section = "pr_section" -> MarkerPrSection
        lines == SplitLines(text)
    IN  \E i \in 1..Len(lines) : MarkerSearch(marker, lines[i])

\* C20: every call of extract_section_numbers starts with the flag of the
\* section off, so a marker on one page never opens the section on the
\* next: what a call returns depends on its own page text alone, and a
\* page with no marker line of corrigenda, renewal or pr_section gives
\* nothing to that section, whatever the pages before it held.
C20_SectionFlagLocalToPage ==
    /\ [][\A r \in Uploads :
              (ExtractEnter(r) /\ up'[r].pc = "line") => ~up'[r].in_section]_vars
    /\ [][\A r \in Uploads :
              (/\ ProcessExtend(r)
               /\ section_order[up[r].sec] \in MarkedSections
               /\ ~HasMarkerLine(up[r].text, section_order[up[r].sec]))
                  => up'[r].results = up[r].results]_vars
    /\ [](\A r \in Uploads :
              (up[r].pc = "returned" /\ section_order[up[r].sec] \in MarkedSections) =>
                  /\ up[r].ret = extract_section_numbers(up[r].text,
                                                         section_order[up[r].sec])
                  /\ ~HasMarkerLine(up[r].text, section_order[up[r].sec])
                         => up[r].ret = <<>>)

\* The first page held the renewal marker and gave numbers to renewal; the
\* call for the second page, which has numbers and no marker, returned
\* nothing.
C20_Witness ==
    /\ up["A"].pc = "returned" /\ up["A"].pg = 2
    /\ section_order[up["A"].sec] = "renewal"
    /\ up["A"].doc.pages[1] = [raises |-> FALSE, text |-> RenewalText]
    /\ up["A"].text = PlainText
    /\ up["A"].results["renewal"] # <<>>
    /\ up["A"].ret = <<>>
    /\ FindAll("renewal0", PlainText) # <<>>
====
